---- MODULE Spec2Model ----
(***************************************************************************)
(* Grist catalog connector: the memoized Remote Client (sendRequest), the  *)
(* Resource Navigator (list) and the Resource Fetcher (getResource with    *)
(* getMetadataOnFields), as a state machine of concurrent invocations.     *)
(*                                                                         *)
(* JavaScript strings are TLA+ strings; Len, SubSeq and \o act on them     *)
(* character by character.  Accented letters of the French messages are    *)
(* written without their accents.  A value that may be undefined is a      *)
(* tuple: <<>> for undefined, <<v>> for the value v.                       *)
(***************************************************************************)
EXTENDS Integers, Sequences, FiniteSets, TLC

(***************************************************************************)
(* Bounds of the model.                                                    *)
(***************************************************************************)
\* number of memoized remote requests one behaviour may issue
MaxPromises == 3
\* minutes the clock may reach
MaxTime == 6
\* number of chunks a CSV body may arrive in
MaxChunks == 2
\* bytes per chunk
ChunkLen == 1

Callers == {"c1", "c2"}
ApiKeys == {"kA", "kB"}

(***************************************************************************)
(* String functions of JavaScript used by the connector.                   *)
(***************************************************************************)
\* String.prototype.includes
Includes(s, t) ==
  \E i \in 1..(Len(s) - Len(t) + 1) : SubSeq(s, i, i + Len(t) - 1) = t

\* String.prototype.indexOf: 0-based position of the first occurrence, or -1
IndexOf(s, t) ==
  IF Includes(s, t)
  THEN (CHOOSE i \in 1..(Len(s) - Len(t) + 1) :
          /\ SubSeq(s, i, i + Len(t) - 1) = t
          /\ \A j \in 1..(i - 1) : SubSeq(s, j, j + Len(t) - 1) # t) - 1
  ELSE -1

\* String.prototype.substring(start, end): negative arguments count as 0
Substring(s, start, end) ==
  LET a == IF start < 0 THEN 0 ELSE start
      b == IF end < 0 THEN 0 ELSE end
  IN  IF a <= b THEN SubSeq(s, a + 1, b) ELSE SubSeq(s, b + 1, a)

\* String.prototype.substring(start)
SubstringFrom(s, start) == SubSeq(s, start + 1, Len(s))

\* every piece of s between occurrences of the one-character separator sep
RECURSIVE SplitAll(_, _)
SplitAll(s, sep) ==
  IF Includes(s, sep)
  THEN LET i == IndexOf(s, sep)
       IN  <<SubSeq(s, 1, i)>> \o SplitAll(SubSeq(s, i + 2, Len(s)), sep)
  ELSE <<s>>

\* String.prototype.split(sep, limit): the first `limit` pieces, the rest dropped
Split(s, sep, limit) ==
  LET all == SplitAll(s, sep)
  IN  IF Len(all) <= limit THEN all ELSE SubSeq(all, 1, limit)

\* array destructuring: the i-th element, or undefined
At(parts, i) == IF i <= Len(parts) THEN <<parts[i]>> ELSE <<>>

\* template-literal interpolation of a value that may be undefined
Tmpl(v) == IF v = <<>> THEN "undefined" ELSE v[1]

(***************************************************************************)
(* The remote service: one tree of organizations, workspaces, documents    *)
(* and tables, as the payloads of the endpoints the connector calls.       *)
(***************************************************************************)
SelfHostedUrl == "https://example.com"
SaasUrl == "https://docs.getgrist.com"
BaseUrls == {SelfHostedUrl, SaasUrl}

\* credentials the remote service accepts
ValidKeys == {"kA"}

\* GET /api/orgs
Orgs ==
  << [id |-> 1, name |-> "Personal", owner |-> <<"UserTest">>, domain |-> "org-1"] >>

\* the workspaces, each with the index of its organization in Orgs
Workspaces ==
  << [id |-> 1, name |-> "wsp 1", org |-> 1] >>

\* the documents, each with the index of its workspace in Workspaces
Docs ==
  << [id |-> "d1", name |-> "doc1", ws |-> 1],
     [id |-> "a/orgs/b", name |-> "doc2", ws |-> 1] >>

\* the tables, each with the index of its document in Docs
Tables ==
  << [id |-> "Table1", doc |-> 1],
     [id |-> "Table2", doc |-> 1],
     [id |-> "T", doc |-> 2] >>

\* the elements of the sequence s that satisfy Keep, in order
RECURSIVE SelectIdx(_, _, _)
SelectIdx(n, Keep(_), i) ==
  IF i > n THEN <<>>
  ELSE (IF Keep(i) THEN <<i>> ELSE <<>>) \o SelectIdx(n, Keep, i + 1)

WorkspacesOf(o) ==
  LET Keep(i) == Workspaces[i].org = o IN SelectIdx(Len(Workspaces), Keep, 1)
DocsOf(w) ==
  LET Keep(i) == Docs[i].ws = w IN SelectIdx(Len(Docs), Keep, 1)
TablesOf(d) ==
  LET Keep(i) == Tables[i].doc = d IN SelectIdx(Len(Tables), Keep, 1)

OrgOfDoc(d) == Workspaces[Docs[d].ws].org

\* the API prefix under which the remote service serves a document
DocApi(base, d) ==
  IF base = SaasUrl THEN base \o "/api"
  ELSE base \o "/o/" \o Orgs[OrgOfDoc(d)].domain \o "/api"

\* the endpoints of the remote service under base: the url, the kind of
\* payload, and the node (n) and table (t) of the tree the payload describes
Endpoints(base) ==
  {[url |-> base \o "/api/orgs", kind |-> "orgs", n |-> 0, t |-> 0]}
  \cup {[url |-> base \o "/api/orgs/" \o ToString(Orgs[o].id) \o "/workspaces",
         kind |-> "workspaces", n |-> o, t |-> 0] : o \in 1..Len(Orgs)}
  \cup {[url |-> base \o "/api/orgs/" \o ToString(Orgs[o].id),
         kind |-> "org", n |-> o, t |-> 0] : o \in 1..Len(Orgs)}
  \cup {[url |-> base \o "/api/workspaces/" \o ToString(Workspaces[w].id),
         kind |-> "workspace", n |-> w, t |-> 0] : w \in 1..Len(Workspaces)}
  \cup {[url |-> DocApi(base, d) \o "/docs/" \o Docs[d].id \o "/tables",
         kind |-> "tables", n |-> d, t |-> 0] : d \in 1..Len(Docs)}
  \cup {[url |-> DocApi(base, d) \o "/docs/" \o Docs[d].id,
         kind |-> "doc", n |-> d, t |-> 0] : d \in 1..Len(Docs)}
  \cup {[url |-> DocApi(base, Tables[t].doc) \o "/docs/" \o Docs[Tables[t].doc].id
                   \o "/download/csv?tableId=" \o Tables[t].id,
         kind |-> "csv", n |-> Tables[t].doc, t |-> t] : t \in 1..Len(Tables)}
  \cup {[url |-> DocApi(base, Tables[t].doc) \o "/docs/" \o Docs[Tables[t].doc].id
                   \o "/download/table-schema?tableId=" \o Tables[t].id,
         kind |-> "schema", n |-> Tables[t].doc, t |-> t] : t \in 1..Len(Tables)}

EndpointTable == [base \in BaseUrls |-> Endpoints(base)]

\* what the remote service serves at url; kind "none" when it has nothing there
Served(base, url) ==
  IF \E e \in EndpointTable[base] : e.url = url
  THEN CHOOSE e \in EndpointTable[base] : e.url = url
  ELSE [url |-> url, kind |-> "none", n |-> 0, t |-> 0]

\* the statuses the remote service may answer a request with; 0 stands for a
\* transport failure (no HTTP response at all)
RemoteStatuses(base, url, key) ==
  IF key \notin ValidKeys THEN {401}
  ELSE IF Served(base, url).kind = "none" THEN {404}
  ELSE {200, 204, 500, 0}

(***************************************************************************)
(* State.                                                                  *)
(***************************************************************************)
VARIABLES
  cfgApiKey, \* catalogConfig.apiKey
  secrets,   \* secrets.apiKey
  prep,      \* the invocation of prepare the host runs, and how it ended
  cfgUrl,    \* catalogConfig.url
  now,       \* the clock, in minutes
  promises,  \* the promises sendRequest's inner function has returned
  cache,     \* memoize's cache: key -> promise
  call       \* per caller: the invocation it runs and what that returned

vars == <<cfgApiKey, secrets, prep, cfgUrl, now, promises, cache, call>>

\* maxAge of the memoized sendRequest, in minutes
MaxAge == 5

\* the message of the error sendRequest throws
SendRequestMsg ==
  "Erreur pendant la recuperation des donnees, pensez a verifier si l'url ou la cle d'API est correcte"

\* the phrase every data-retrieval failure carries
GenericPhrase == "Erreur pendant la recuperation des donnees"

IdleCall ==
  [op |-> "idle", pc |-> "idle", key |-> "", arg |-> "", from |-> "ext",
   src |-> <<>>, branch |-> "", url |-> "", pid |-> <<>>, pids |-> <<>>,
   reqs |-> <<>>, folders |-> <<>>, ret |-> <<>>, msg |-> "", log |-> <<>>,
   downloaded |-> 0, chunks |-> 0, fault |-> "", data |-> <<>>, trace |-> <<>>]

\* the caller's invocation has returned or thrown (or it has made none yet)
Finished(c) == call[c].pc \in {"idle", "done", "failed"}

(***************************************************************************)
(* sendRequest: memoize(async (url, apiKey) => ..., { maxAge })            *)
(***************************************************************************)
\* memoize is given no cacheKey option: the key is the first argument
CacheKey(url, apiKey) == url

Cached(url, apiKey) == CacheKey(url, apiKey) \in DOMAIN cache

\* a call can be made: it is answered from the cache or may issue a request
CanSend(url, apiKey) == Cached(url, apiKey) \/ Cardinality(DOMAIN promises) < MaxPromises

\* the promise the call returns: the cached one, or the one the inner function
\* returns now; a promise is named by the url and time of its request
SendPid(url, apiKey) ==
  IF Cached(url, apiKey) THEN cache[CacheKey(url, apiKey)] ELSE <<url, now>>

\* the inner function runs (and issues the request) only on a cache miss
SendPromises(url, apiKey) ==
  IF Cached(url, apiKey) THEN promises
  ELSE (<<url, now>> :> [key |-> apiKey, status |-> "pending", http |-> -1]) @@ promises

\* memoize stores the promise the inner function returned
SendCache(url, apiKey) ==
  IF Cached(url, apiKey) THEN cache
  ELSE (CacheKey(url, apiKey) :> <<url, now>>) @@ cache

\* Settle, were every 2xx status taken for a success
SettleAny2xx(status) == IF status \in 200..299 THEN "ok" ELSE "err"

\* how the inner function settles on the remote service's answer: it resolves
\* on status 200 and rejects with SendRequestMsg on anything else
Settle(status) == IF status = 200 THEN "ok" ELSE "err"

\* the remote service answers the request of promise p
Respond(p) ==
  /\ promises[p].status = "pending"
  /\ \E status \in RemoteStatuses(cfgUrl, p[1], promises[p].key) :
       promises' = [promises EXCEPT ![p].status = Settle(status), ![p].http = status]
  /\ UNCHANGED <<cfgApiKey, secrets, prep, cfgUrl, now, cache, call>>

(***************************************************************************)
(* list                                                                    *)
(***************************************************************************)
Folder(id, title) == [id |-> id, title |-> title, type |-> "folder", format |-> <<>>]
ResourceEntry(id, title) ==
  [id |-> id, title |-> title, type |-> "resource", format |-> <<"csv">>]

\* Branch, were an id without '|/docs/' refused
BranchChecked(folderId) ==
  IF folderId = "" THEN "root"
  ELSE IF Includes(folderId, "/orgs/") THEN "org"
  ELSE IF Includes(folderId, "/workspaces/") THEN "ws"
  ELSE IF Includes(folderId, "|/docs/") THEN "doc"
  ELSE "invalid"

\* the four-way if of list on params.currentFolderId ("" when there is none)
Branch(folderId) ==
  IF folderId = "" THEN "root"
  ELSE IF Includes(folderId, "/orgs/") THEN "org"
  ELSE IF Includes(folderId, "/workspaces/") THEN "ws"
  ELSE "doc"

IsSaas(url) == Includes(url, ".getgrist.com")

\* const [domain, docUrl] = params.currentFolderId.split('|', 2)
FolderDomain(folderId) == At(Split(folderId, "|", 2), 1)
FolderDocUrl(folderId) == At(Split(folderId, "|", 2), 2)

\* the url of the children request
ChildrenUrl(base, folderId) ==
  LET b == Branch(folderId)
  IN  IF b = "root" THEN base \o "/api/orgs"
      ELSE IF b = "org" THEN base \o "/api" \o folderId \o "/workspaces"
      ELSE IF b = "ws" THEN base \o "/api" \o folderId
      ELSE IF IsSaas(base)
           THEN base \o "/api" \o Tmpl(FolderDocUrl(folderId)) \o "/tables"
           ELSE base \o "/o/" \o Tmpl(FolderDomain(folderId)) \o "/api"
                  \o Tmpl(FolderDocUrl(folderId)) \o "/tables"

\* the url of the breadcrumb request of the organization and document branches
PathUrl(branch, url) ==
  IF branch = "org" THEN Substring(url, 0, IndexOf(url, "/workspaces"))
  ELSE Substring(url, 0, IndexOf(url, "/tables"))

\* the kind of payload each branch reads its children from
ChildrenKind(branch) ==
  IF branch = "root" THEN "orgs"
  ELSE IF branch = "org" THEN "workspaces"
  ELSE IF branch = "ws" THEN "workspace"
  ELSE "tables"

OrgTitle(o) ==
  Orgs[o].name \o (IF Orgs[o].name = "Personal"
                   THEN " (@" \o Tmpl(Orgs[o].owner) \o ")" ELSE "")

\* TableEntryId, were the prefix cut one character short
TableEntryIdCutShort(folderId, tableId) ==
  Tmpl(FolderDomain(folderId)) \o "|" \o SubstringFrom(FolderDocUrl(folderId)[1], 5)
    \o "|" \o tableId

\* the id of a table entry; docUrl.substring(6) removes the '/docs/'
TableEntryId(folderId, tableId) ==
  Tmpl(FolderDomain(folderId)) \o "|" \o SubstringFrom(FolderDocUrl(folderId)[1], 6)
    \o "|" \o tableId

\* the entries pushed to folders from the payload the children request returned;
\* n is the node of the tree the payload describes
Children(branch, folderId, n) ==
  IF branch = "root"
  THEN [i \in 1..Len(Orgs) |-> Folder("/orgs/" \o ToString(Orgs[i].id), OrgTitle(i))]
  ELSE IF branch = "org"
  THEN LET ws == WorkspacesOf(n)
       IN  [i \in 1..Len(ws) |->
              Folder("/workspaces/" \o ToString(Workspaces[ws[i]].id), Workspaces[ws[i]].name)]
  ELSE IF branch = "ws"
  THEN LET ds == DocsOf(n)
           domain == Orgs[Workspaces[n].org].domain
       IN  [i \in 1..Len(ds) |->
              Folder(domain \o "|/docs/" \o Docs[ds[i]].id, Docs[ds[i]].name)]
  ELSE LET ts == TablesOf(n)
       IN  [i \in 1..Len(ts) |->
              ResourceEntry(TableEntryId(folderId, Tables[ts[i]].id), Tables[ts[i]].id)]

\* path of the workspace branch, from the workspace payload itself
WorkspacePath(folderId, w) ==
  << Folder("/orgs/" \o ToString(Orgs[Workspaces[w].org].id), Orgs[Workspaces[w].org].name),
     Folder(folderId, Workspaces[w].name) >>

\* path of the organization branch, from the organization payload
OrgPath(folderId, o) == << Folder(folderId, Orgs[o].name) >>

\* DocPath, were the document itself left out
DocPathWithoutDocument(folderId, d) ==
  LET w == Docs[d].ws
      o == Workspaces[w].org
  IN  << Folder("/orgs/" \o ToString(Orgs[o].id), Orgs[o].name),
         Folder("/workspaces/" \o ToString(Workspaces[w].id), Workspaces[w].name) >>

\* path of the document branch, from the document payload
DocPath(folderId, d) ==
  LET w == Docs[d].ws
      o == Workspaces[w].org
  IN  << Folder("/orgs/" \o ToString(Orgs[o].id), Orgs[o].name),
         Folder("/workspaces/" \o ToString(Workspaces[w].id), Workspaces[w].name),
         Folder(folderId, Docs[d].name) >>

\* list is called: the branch is chosen and the children request sent
ListBegin(c, apiKey, folderId, from) ==
  LET url == ChildrenUrl(cfgUrl, folderId)
  IN  /\ Finished(c)
      /\ CanSend(url, apiKey)
      /\ promises' = SendPromises(url, apiKey)
      /\ cache' = SendCache(url, apiKey)
      /\ call' = [call EXCEPT ![c] =
                    [IdleCall EXCEPT !.op = "list", !.pc = "children", !.key = apiKey,
                                     !.arg = folderId, !.from = from,
                                     !.branch = Branch(folderId), !.url = url,
                                     !.pid = SendPid(url, apiKey),
                                     !.pids = <<SendPid(url, apiKey)>>,
                                     !.reqs = <<url>>]]
      /\ UNCHANGED <<cfgApiKey, secrets, prep, cfgUrl, now>>

\* folder ids the host passes that no listing of this behaviour has emitted
ExternalFolderIds ==
  {"", "/orgs/1", "/workspaces/1", "org-1|/docs/d1"}

\* list is called with a folder id the host supplies
ListStart(c, apiKey, folderId) ==
  /\ folderId \in ExternalFolderIds
  /\ ListBegin(c, apiKey, folderId, "ext")

\* folder ids of none of the recognized shapes: no '|', no '/docs/' after the
\* '|', a resource id, a third component
UnrecognizedFolderIds ==
  {"d1", "org-1|d1", "org-1|d1|Table1", "org-1|/docs/d1|x"}

\* list is called with a folder id of no recognized shape
ListUnrecognized(c, apiKey, folderId) ==
  /\ folderId \in UnrecognizedFolderIds
  /\ ListBegin(c, apiKey, folderId, "ext")

\* list is called with the id of entry i of the listing caller c2 got back,
\* unmodified
ListFollow(c, apiKey, c2, i) ==
  /\ call[c2].op = "list"
  /\ call[c2].pc = "done"
  /\ i <= Len(call[c2].ret[1].results)
  /\ call[c2].ret[1].results[i].type = "folder"
  /\ ListBegin(c, apiKey, call[c2].ret[1].results[i].id, call[c2].branch)

\* the call throws: nothing is returned
Throw(c, message) ==
  call' = [call EXCEPT ![c].pc = "failed", ![c].msg = message,
                       ![c].folders = <<>>, ![c].ret = <<>>]

\* the call returns { count: folders.length, results: folders, path }
Return(c, folders, path) ==
  call' = [call EXCEPT ![c].pc = "done", ![c].folders = folders,
                       ![c].ret = <<[count |-> Len(folders), results |-> folders,
                                     path |-> path]>>]

\* the children request has settled: the children are pushed, then the call
\* returns (root, workspace) or sends the breadcrumb request (organization,
\* document)
ListChildren(c) ==
  LET r == call[c]
      got == Served(cfgUrl, r.url)
      folders == Children(r.branch, r.arg, got.n)
      next == PathUrl(r.branch, r.url)
  IN  /\ r.op = "list"
      /\ r.pc = "children"
      /\ promises[r.pid].status # "pending"
      /\ IF promises[r.pid].status = "err"
         THEN Throw(c, SendRequestMsg) /\ UNCHANGED <<promises, cache>>
         ELSE IF \/ got.kind # ChildrenKind(r.branch)
                 \/ (r.branch = "doc" /\ FolderDocUrl(r.arg) = <<>>
                       /\ TablesOf(got.n) # <<>>)
         THEN Throw(c, "TypeError") /\ UNCHANGED <<promises, cache>>
         ELSE IF r.branch = "root"
         THEN Return(c, folders, <<>>) /\ UNCHANGED <<promises, cache>>
         ELSE IF r.branch = "ws"
         THEN Return(c, folders, WorkspacePath(r.arg, got.n))
              /\ UNCHANGED <<promises, cache>>
         ELSE /\ CanSend(next, r.key)
              /\ promises' = SendPromises(next, r.key)
              /\ cache' = SendCache(next, r.key)
              /\ call' = [call EXCEPT ![c].pc = "path", ![c].folders = folders,
                                      ![c].url = next,
                                      ![c].pid = SendPid(next, r.key),
                                      ![c].pids = Append(@, SendPid(next, r.key)),
                                      ![c].reqs = Append(@, next)]
      /\ UNCHANGED <<cfgApiKey, secrets, prep, cfgUrl, now>>

\* the breadcrumb request has settled: the path is built and the call returns
ListPath(c) ==
  LET r == call[c]
      got == Served(cfgUrl, r.url)
  IN  /\ r.op = "list"
      /\ r.pc = "path"
      /\ promises[r.pid].status # "pending"
      /\ IF promises[r.pid].status = "err"
         THEN Throw(c, SendRequestMsg)
         ELSE IF r.branch = "org" /\ got.kind = "org"
         THEN Return(c, r.folders, OrgPath(r.arg, got.n))
         ELSE IF r.branch = "doc" /\ got.kind = "doc"
         THEN Return(c, r.folders, DocPath(r.arg, got.n))
         ELSE Throw(c, "TypeError")
      /\ UNCHANGED <<cfgApiKey, secrets, prep, cfgUrl, now, promises, cache>>

(***************************************************************************)
(* getResource and getMetadataOnFields                                     *)
(***************************************************************************)
\* the scratch directory the host passes as tmpDir
TmpDir == "/tmp/dir"

\* const [domain, docId, tableId] = resourceId.split('|', 3)
ResDomain(resourceId) == At(Split(resourceId, "|", 3), 1)
ResDocId(resourceId) == At(Split(resourceId, "|", 3), 2)
ResTableId(resourceId) == At(Split(resourceId, "|", 3), 3)

\* DownloadUrl, were the self-hosted prefix forgotten
DownloadUrlWithoutDomain(base, resourceId, what) ==
  base \o "/api/docs/" \o Tmpl(ResDocId(resourceId)) \o "/download/" \o what
    \o "?tableId=" \o Tmpl(ResTableId(resourceId))

\* the url of a download endpoint ("csv" or "table-schema") of the table
DownloadUrl(base, resourceId, what) ==
  IF IsSaas(base)
  THEN base \o "/api/docs/" \o Tmpl(ResDocId(resourceId)) \o "/download/" \o what
         \o "?tableId=" \o Tmpl(ResTableId(resourceId))
  ELSE base \o "/o/" \o Tmpl(ResDomain(resourceId)) \o "/api/docs/"
         \o Tmpl(ResDocId(resourceId)) \o "/download/" \o what
         \o "?tableId=" \o Tmpl(ResTableId(resourceId))

\* path.join(tmpDir, `${tableId}.csv`)
DestFile(resourceId) == TmpDir \o "/" \o Tmpl(ResTableId(resourceId)) \o ".csv"

Origin(base, resourceId) ==
  IF IsSaas(base) THEN base \o "/" \o Tmpl(ResDocId(resourceId))
  ELSE base \o "/o/" \o Tmpl(ResDomain(resourceId)) \o "/" \o Tmpl(ResDocId(resourceId))

\* the value axios rejects with: an Error with a message, or <<>> for a value
\* that is no Error
AxiosFailure(status, isError) ==
  IF ~isError THEN <<>>
  ELSE IF status = 0 THEN <<"Network Error">>
  ELSE <<"Request failed with status code " \o ToString(status)>>

\* thrown by getResource on a response that is not 200
CsvStatusError(status) ==
  <<"Erreur pendant la recuperation des donnees (erreur HTTP " \o ToString(status) \o ")">>

\* thrown by getMetadataOnFields on a response that is not 200
SchemaStatusError(status) ==
  <<"Erreur pendant la recuperation des metadonnees (erreur HTTP " \o ToString(status) \o ")">>

\* the message of the error the catch of getResource throws for the error caught
CatchMessage(error) ==
  "Erreur pendant la recuperation des donnees: "
    \o (IF error = <<>> THEN "Unknown error" ELSE error[1])

\* axios resolves on a 2xx status and rejects on anything else
AxiosResolves(status) == status \in 200..299

\* Separator, were a bare ',' kept as it is
SeparatorKeepsComma(field) ==
  IF field.type = <<"array">>
  THEN IF field.delimiter = <<>> \/ field.delimiter = <<"">>
       THEN <<", ">>
       ELSE field.delimiter
  ELSE <<>>

\* the separator of a field of the table schema
Separator(field) ==
  IF field.type = <<"array">>
  THEN IF field.delimiter = <<>> \/ field.delimiter = <<"">> \/ field.delimiter = <<",">>
       THEN <<", ">>
       ELSE field.delimiter
  ELSE <<>>

\* ResourceTitle, were the payload's title ignored
ResourceTitleIsName(data) == data.name

\* title: data.title || data.name
ResourceTitle(data) ==
  IF data.title = <<>> \/ data.title = <<"">> THEN data.name ELSE data.title[1]

\* resource.schema = (data.schema?.fields || []).map(...); the key (a slug of
\* the field's name) is left out
ResourceSchema(data) ==
  [i \in 1..Len(data.fields) |->
     [title |-> data.fields[i].name,
      description |-> data.fields[i].description,
      separator |-> Separator(data.fields[i])]]

\* the descriptor getMetadataOnFields builds, with the filePath getResource sets
Descriptor(base, resourceId, data) ==
  [id |-> data.name,
   title |-> ResourceTitle(data),
   format |-> "csv",
   mimeType |-> "text/csv",
   origin |-> Origin(base, resourceId),
   filePath |-> DestFile(resourceId),
   schema |-> ResourceSchema(data)]

\* the fields a table-schema payload may hold
SchemaFields ==
  [name : {"field1"},
   description : {<<"Field 1">>},
   type : {<<>>, <<"array">>, <<"string">>},
   delimiter : {<<>>, <<"">>, <<",">>, <<";">>}]

\* the payloads the table-schema endpoint may answer with: no field, any one
\* field, or the two fields of the repository's test
SchemaPayloads ==
  [name : {"table1"},
   title : {<<>>, <<"">>, <<"My table">>},
   fields : {<<>>} \cup {<<f>> : f \in SchemaFields}
              \cup {<< [name |-> "field1", description |-> <<"Field 1">>,
                        type |-> <<>>, delimiter |-> <<>>],
                       [name |-> "field2", description |-> <<"Field 2">>,
                        type |-> <<"array">>, delimiter |-> <<>>] >>}]

\* getResource is called: the identifier is split and the CSV requested
GetBegin(c, apiKey, resourceId, src) ==
  LET url == DownloadUrl(cfgUrl, resourceId, "csv")
  IN  /\ Finished(c)
      /\ call' = [call EXCEPT ![c] =
                    [IdleCall EXCEPT !.op = "get", !.pc = "csv", !.key = apiKey,
                                     !.arg = resourceId, !.src = src, !.url = url,
                                     !.reqs = <<url>>, !.log = <<<<"step">>>>,
                                     !.trace = << <<"step">>, <<"request", url>> >>]]
      /\ UNCHANGED <<cfgApiKey, secrets, prep, cfgUrl, now, promises, cache>>

\* resource ids the host passes that no listing of this behaviour has emitted
ExternalResourceIds == {"org-1|d1|Table1", "org-1|d1", "org-1|d1|Table1|x"}

GetStart(c, apiKey, resourceId) ==
  /\ resourceId \in ExternalResourceIds
  /\ GetBegin(c, apiKey, resourceId, <<>>)

\* getResource is called with the id of entry i of the listing caller c2 got
\* back, unmodified
GetFollow(c, apiKey, c2, i) ==
  /\ call[c2].op = "list"
  /\ call[c2].pc = "done"
  /\ i <= Len(call[c2].ret[1].results)
  /\ call[c2].ret[1].results[i].type = "resource"
  /\ GetBegin(c, apiKey, call[c2].ret[1].results[i].id,
              <<call[c2].arg, i, call[c2].reqs[1]>>)

\* the catch of getResource: log.error, then the error is thrown
GetThrow(c, error, fault) ==
  call' = [call EXCEPT ![c].pc = "failed", ![c].msg = CatchMessage(error),
                       ![c].ret = <<>>, ![c].fault = fault,
                       ![c].log = Append(@, <<"error">>),
                       ![c].trace = Append(@, <<"error">>)]

\* the CSV request is answered
GetCsvResponse(c) ==
  LET r == call[c]
  IN  /\ r.op = "get"
      /\ r.pc = "csv"
      /\ \E status \in RemoteStatuses(cfgUrl, r.url, r.key) :
           IF ~AxiosResolves(status)
           THEN \E isError \in BOOLEAN :
                  GetThrow(c, AxiosFailure(status, isError),
                           IF status = 0 THEN "transport" ELSE "status")
           ELSE IF status # 200
           THEN GetThrow(c, CsvStatusError(status), "status")
           ELSE call' = [call EXCEPT ![c].pc = "task",
                                     ![c].log = Append(@, <<"task">>),
                                     ![c].trace = Append(@, <<"task">>)]
      /\ UNCHANGED <<cfgApiKey, secrets, prep, cfgUrl, now, promises, cache>>

\* log.task has returned: the data listener is set, the body piped to the
\* writer and the writer's finish and error listeners set
GetPipe(c) ==
  /\ call[c].op = "get"
  /\ call[c].pc = "task"
  /\ call' = [call EXCEPT ![c].pc = "stream"]
  /\ UNCHANGED <<cfgApiKey, secrets, prep, cfgUrl, now, promises, cache>>

\* what the data listener does on a chunk: downloaded is the count after the
\* chunk was added
ChunkEvents(downloaded, late) ==
  << <<"chunk">> >> \o (IF late THEN << <<"progress", downloaded>> >> ELSE <<>>)

\* a chunk of the body arrives; late says that more than logInterval has passed
\* since the last progress report
GetChunk(c, late) ==
  LET r == call[c]
  IN  /\ r.op = "get"
      /\ r.pc = "stream"
      /\ r.chunks < MaxChunks
      /\ call' = [call EXCEPT ![c].chunks = @ + 1,
                              ![c].downloaded = @ + ChunkLen,
                              ![c].log = IF late
                                         THEN Append(@, <<"progress", r.downloaded + ChunkLen>>)
                                         ELSE @,
                              ![c].trace = @ \o ChunkEvents(r.downloaded + ChunkLen, late)]
      /\ UNCHANGED <<cfgApiKey, secrets, prep, cfgUrl, now, promises, cache>>

\* FinishEvents, were the table schema requested before the final report
FinishEventsSchemaFirst(downloaded, url) ==
  << <<"finish">>, <<"info">>, <<"request", url>>,
     <<"progress", downloaded, downloaded>> >>

\* what follows the end of the pipe: the writer's 'finish' resolves the awaited
\* promise, the final progress is reported, then getMetadataOnFields logs and
\* sends its request
FinishEvents(downloaded, url) ==
  << <<"finish">>, <<"progress", downloaded, downloaded>>, <<"info">>,
     <<"request", url>> >>

\* the writer finishes: the final progress is reported and getMetadataOnFields
\* requests the table schema
GetFinish(c) ==
  LET r == call[c]
      url == DownloadUrl(cfgUrl, r.arg, "table-schema")
  IN  /\ r.op = "get"
      /\ r.pc = "stream"
      /\ call' = [call EXCEPT ![c].pc = "schema", ![c].url = url,
                              ![c].reqs = Append(@, url),
                              ![c].log = @ \o << <<"progress", r.downloaded, r.downloaded>>,
                                                 <<"info">> >>,
                              ![c].trace = @ \o FinishEvents(r.downloaded, url)]
      /\ UNCHANGED <<cfgApiKey, secrets, prep, cfgUrl, now, promises, cache>>

\* the writer emits 'error'.  Once its listeners are set the awaited promise
\* rejects and the catch runs; while getResource still awaits log.task the
\* writer has no 'error' listener and the event is an uncaught exception
GetWriteError(c) ==
  LET r == call[c]
  IN  /\ r.op = "get"
      /\ r.pc \in {"task", "stream"}
      /\ IF r.pc = "stream"
         THEN GetThrow(c, <<"ENOSPC: no space left on device, write">>, "write")
         ELSE call' = [call EXCEPT ![c].pc = "crashed", ![c].fault = "write"]
      /\ UNCHANGED <<cfgApiKey, secrets, prep, cfgUrl, now, promises, cache>>

\* the response body fails before its end (the connection is lost): pipe does
\* not end the writer, which emits neither 'finish' nor 'error', and the
\* awaited promise never settles
GetBodyError(c) ==
  /\ call[c].op = "get"
  /\ call[c].pc = "stream"
  /\ call' = [call EXCEPT ![c].pc = "stalled", ![c].fault = "transport"]
  /\ UNCHANGED <<cfgApiKey, secrets, prep, cfgUrl, now, promises, cache>>

\* the table-schema request is answered
GetSchemaResponse(c) ==
  LET r == call[c]
  IN  /\ r.op = "get"
      /\ r.pc = "schema"
      /\ \E status \in RemoteStatuses(cfgUrl, r.url, r.key) :
           IF ~AxiosResolves(status)
           THEN \E isError \in BOOLEAN :
                  GetThrow(c, AxiosFailure(status, isError),
                           IF status = 0 THEN "transport" ELSE "status")
           ELSE IF status # 200
           THEN GetThrow(c, SchemaStatusError(status), "status")
           ELSE \E data \in SchemaPayloads :
                  call' = [call EXCEPT ![c].pc = "done",
                                       ![c].ret = <<Descriptor(cfgUrl, r.arg, data)>>,
                                       ![c].data = <<data>>,
                                       ![c].trace = Append(@, <<"return">>)]
      /\ UNCHANGED <<cfgApiKey, secrets, prep, cfgUrl, now, promises, cache>>

(***************************************************************************)
(* prepare                                                                 *)
(***************************************************************************)
\* what the configuration form shows in place of a stored key
Redacted == "********"

\* the values of catalogConfig.apiKey the host may pass: unset, empty, the
\* redaction mark, or a key typed in
GivenApiKeys == {<<>>, <<"">>, <<Redacted>>} \cup {<<k>> : k \in ApiKeys}

\* the values of catalogConfig.url the host may pass; "" stands for none
GivenUrls == BaseUrls \cup {"", "example.com"}

IdlePrepare ==
  [pc |-> "idle", given |-> <<>>, before |-> <<>>, prev |-> <<>>, msg |-> ""]

\* JavaScript truthiness of a string that may be undefined
Truthy(v) == v # <<>> /\ v # <<"">>

\* apiKey && apiKey !== '********'
IsPlainKey(apiKey) == Truthy(apiKey) /\ apiKey # <<Redacted>>

\* PrepareConfigKey, were the key left in the configuration
PrepareConfigKeyKept(apiKey) == apiKey

\* catalogConfig.apiKey after the if of prepare
PrepareConfigKey(apiKey) == IF IsPlainKey(apiKey) THEN <<Redacted>> ELSE apiKey

\* secrets.apiKey after the if of prepare; secret is its value before
PrepareSecret(apiKey, secret) ==
  IF IsPlainKey(apiKey) THEN apiKey
  ELSE IF Truthy(secret) /\ apiKey = <<"">> THEN <<>>
  ELSE secret

UrlMissingMsg == "Grist catalog configuration requires a \"url\" property."
ConnectionMsg == "Erreur de connexion a l'API Grist, verifiez l'URL et la cle d'API."

\* new URL(...) accepts the string
ValidUrl(url) == SubSeq(url, 1, 8) = "https://" \/ SubSeq(url, 1, 7) = "http://"

\* prepare is called on the configuration the host passes: the key is moved to
\* the secrets, the url checked and the connectivity probe sent
PrepareBegin(apiKey, url) ==
  /\ prep.pc # "probe"
  /\ \A c \in Callers : Finished(c)
  /\ cfgApiKey' = PrepareConfigKey(apiKey)
  /\ secrets' = PrepareSecret(apiKey, secrets)
  /\ cfgUrl' = url
  /\ prep' = [pc |-> IF url # "" /\ ValidUrl(url) THEN "probe" ELSE "threw",
              given |-> apiKey, before |-> secrets, prev |-> cfgApiKey,
              msg |-> IF url = "" THEN UrlMissingMsg
                      ELSE IF ValidUrl(url) THEN "" ELSE ConnectionMsg]
  /\ UNCHANGED <<now, promises, cache, call>>

\* the probe is answered: prepare returns the configuration and the secrets,
\* or throws when axios rejects
PrepareResponse ==
  /\ prep.pc = "probe"
  /\ \E status \in RemoteStatuses(cfgUrl, cfgUrl \o "/api/orgs", Tmpl(secrets)) :
       prep' = [prep EXCEPT !.pc = IF AxiosResolves(status) THEN "returned" ELSE "threw",
                            !.msg = IF AxiosResolves(status) THEN "" ELSE ConnectionMsg]
  /\ UNCHANGED <<cfgApiKey, secrets, cfgUrl, now, promises, cache, call>>

\* Tick, were no entry ever deleted
TickNeverExpires ==
  /\ now < MaxTime
  /\ now' = now + 1
  /\ UNCHANGED <<cfgApiKey, secrets, prep, cfgUrl, promises, cache, call>>

\* a minute passes; the timers memoize set delete the entries that are maxAge old
Tick ==
  /\ now < MaxTime
  /\ now' = now + 1
  /\ cache' = [k \in {k \in DOMAIN cache : now' - cache[k][2] < MaxAge} |-> cache[k]]
  /\ UNCHANGED <<cfgApiKey, secrets, prep, cfgUrl, promises, call>>

Init ==
  /\ cfgApiKey = <<>>
  /\ secrets = <<>>
  /\ prep = IdlePrepare
  /\ cfgUrl \in BaseUrls
  /\ now = 0
  /\ promises = <<>>
  /\ cache = <<>>
  /\ call = [c \in Callers |-> IdleCall]

\* the Navigator: one caller at a time, its invocations following one another
Next ==
  \/ \E k \in ApiKeys, f \in ExternalFolderIds : ListStart("c1", k, f)
  \/ \E k \in ApiKeys, i \in 1..Len(Docs) : ListFollow("c1", k, "c1", i)
  \/ ListChildren("c1")
  \/ ListPath("c1")
  \/ \E p \in DOMAIN promises : Respond(p)

Spec == Init /\ [][Next]_vars

\* the Fetcher: a listing of the tables of a document, and getResource on the
\* ids the host supplies or the listing returned
NextFetch ==
  \/ ListStart("c1", "kA", "org-1|/docs/d1")
  \/ ListChildren("c1")
  \/ ListPath("c1")
  \/ \E p \in DOMAIN promises : Respond(p)
  \/ \E k \in ApiKeys, r \in ExternalResourceIds : GetStart("c1", k, r)
  \/ \E k \in ApiKeys, i \in 1..Len(Tables) : GetFollow("c1", k, "c1", i)
  \/ GetCsvResponse("c1")
  \/ GetPipe("c1")
  \/ \E late \in BOOLEAN : GetChunk("c1", late)
  \/ GetFinish("c1")
  \/ GetWriteError("c1")
  \/ GetBodyError("c1")
  \/ GetSchemaResponse("c1")

SpecFetch == Init /\ [][NextFetch]_vars

\* the Navigator given folder ids of no recognized shape
NextFallback ==
  \/ \E k \in ApiKeys, f \in UnrecognizedFolderIds : ListUnrecognized("c1", k, f)
  \/ ListChildren("c1")
  \/ ListPath("c1")
  \/ \E p \in DOMAIN promises : Respond(p)

SpecFallback == Init /\ [][NextFallback]_vars

\* the Remote Client over time: two callers list the root, with the same
\* credential or with different ones, while the entries age
NextExpiry ==
  \/ \E c \in Callers, k \in ApiKeys : ListStart(c, k, "")
  \/ \E c \in Callers : ListChildren(c)
  \/ \E p \in DOMAIN promises : Respond(p)
  \/ Tick

SpecExpiry == Init /\ [][NextExpiry]_vars

\* the host configures the catalog again and again
NextPrepare ==
  \/ \E apiKey \in GivenApiKeys, url \in GivenUrls : PrepareBegin(apiKey, url)
  \/ PrepareResponse

SpecPrepare == Init /\ [][NextPrepare]_vars

\* the credential of each caller
KeyOf(c) == IF c = "c1" THEN "kA" ELSE "kB"

\* the Remote Client shared: two callers, each with its own credential, list
\* the root while time passes
NextShared ==
  \/ \E c \in Callers : ListStart(c, KeyOf(c), "")
  \/ \E c \in Callers : ListChildren(c)
  \/ \E p \in DOMAIN promises : Respond(p)
  \/ Tick

SpecShared == Init /\ [][NextShared]_vars

(***************************************************************************)
(* Properties.                                                             *)
(***************************************************************************)
ListCalls == {c \in Callers : call[c].op = "list"}
GetCalls == {c \in Callers : call[c].op = "get"}

\* the promises whose outcome the invocation of c has already been given
Consumed(c) ==
  {call[c].pids[i] : i \in {i \in 1..Len(call[c].pids) :
                              i < Len(call[c].pids) \/ call[c].pc \in {"done", "failed"}}}

\* the level below the one a listing was made at
LevelBelow(branch) ==
  IF branch = "root" THEN "org" ELSE IF branch = "org" THEN "ws" ELSE "doc"

\* the domains and document ids of the remote service
Domains == {Orgs[o].domain : o \in 1..Len(Orgs)}

\* C1: a folder id a listing emitted, passed back unmodified as
\* currentFolderId, is routed to the branch of the next level down: ids of the
\* root listing to the workspace listing, ids of an organization listing to the
\* document listing, ids of a workspace listing to the table listing.
C1_RoundTripDispatch ==
  \A c \in ListCalls :
    call[c].from # "ext" => call[c].branch = LevelBelow(call[c].from)

\* C2: getResource on an identifier that has not exactly 3 pipe-separated
\* components issues no request and does not return a descriptor.
C2_RequiresThreeComponents ==
  \A c \in GetCalls :
    Len(SplitAll(call[c].arg, "|")) # 3 =>
      call[c].reqs = <<>> /\ call[c].pc # "done"

\* C3: no sendRequest(url, apiKeyB) is answered with the response of a request
\* made with another credential.
C3_CacheKeyedByCredential ==
  \A c \in ListCalls : \A p \in Consumed(c) : promises[p].key = call[c].key

\* C4: a list call one of whose remote requests failed (transport error or a
\* status other than 200), the breadcrumb request included, throws an error
\* whose message holds the generic phrase and returns nothing; only a call that
\* has returned has a result.
C4_ListFailureAborts ==
  \A c \in ListCalls :
    /\ (\E p \in Consumed(c) : promises[p].http # 200) =>
         /\ call[c].pc = "failed"
         /\ Includes(call[c].msg, GenericPhrase)
    /\ call[c].pc # "done" => call[c].ret = <<>>

\* a breadcrumb request failed after the children request succeeded
C4_Witness ==
  \E c \in ListCalls :
    /\ call[c].pc = "failed"
    /\ Len(call[c].pids) = 2
    /\ promises[call[c].pids[1]].http = 200
    /\ promises[call[c].pids[2]].http \in {0, 204, 500}
    /\ Includes(call[c].msg, GenericPhrase)

\* C5: in getResource every failure (a status other than 200, a transport
\* failure, a file-write failure), on the CSV download or on the table-schema
\* request, makes the call throw an error whose message holds the generic
\* phrase, and no descriptor is returned.
C5_GetResourceFailureAborts ==
  \A c \in GetCalls :
    call[c].fault # "" =>
      /\ call[c].pc = "failed"
      /\ Includes(call[c].msg, GenericPhrase)
      /\ call[c].ret = <<>>

\* C6: getResource on the id of a table entry of the listing of folder
\* '{domain}|/docs/{docId}' requests the CSV and then the table schema of that
\* domain, document and table, under the prefix the listing used: '/api' on
\* the SaaS domain, '/o/{domain}/api' elsewhere.
C6_DomainCarriedEndToEnd ==
  \A c \in GetCalls :
    call[c].src # <<>> =>
      \A domain \in Domains, d \in 1..Len(Docs) :
        call[c].src[1] = domain \o "|/docs/" \o Docs[d].id =>
          LET tableId == Tables[TablesOf(d)[call[c].src[2]]].id
              prefix == IF cfgUrl = SaasUrl
                        THEN cfgUrl \o "/api/docs/" \o Docs[d].id
                        ELSE cfgUrl \o "/o/" \o domain \o "/api/docs/" \o Docs[d].id
          IN  /\ call[c].src[3] = prefix \o "/tables"
              /\ call[c].reqs[1] = prefix \o "/download/csv?tableId=" \o tableId
              /\ Len(call[c].reqs) <= 2
              /\ Len(call[c].reqs) = 2 =>
                   call[c].reqs[2] = prefix \o "/download/table-schema?tableId=" \o tableId

\* a listed table was fetched to the end from a self-hosted service
C6_Witness ==
  \E c \in GetCalls :
    /\ call[c].src # <<>>
    /\ call[c].pc = "done"
    /\ cfgUrl = SelfHostedUrl
    /\ call[c].src[2] = 2

PathElement(id, title) == [id |-> id, title |-> title, type |-> "folder"]
PathOf(c) ==
  [i \in 1..Len(call[c].ret[1].path) |->
     PathElement(call[c].ret[1].path[i].id, call[c].ret[1].path[i].title)]

\* C7: the path a listing returns holds the ancestors from the root down: none
\* at the root, the organization for '/orgs/{id}', the organization and the
\* workspace for '/workspaces/{id}', the organization, the workspace and the
\* document for '{domain}|/docs/{docId}'; the last element's id is the
\* currentFolderId passed in.
C7_BreadcrumbPath ==
  \A c \in ListCalls :
    call[c].pc = "done" =>
      LET id == call[c].arg
          path == PathOf(c)
          OrgEl(o) == PathElement("/orgs/" \o ToString(Orgs[o].id), Orgs[o].name)
          WsEl(w) == PathElement("/workspaces/" \o ToString(Workspaces[w].id),
                                 Workspaces[w].name)
      IN  /\ id = "" => path = <<>>
          /\ \A o \in 1..Len(Orgs) :
               id = "/orgs/" \o ToString(Orgs[o].id) => path = <<OrgEl(o)>>
          /\ \A w \in 1..Len(Workspaces) :
               id = "/workspaces/" \o ToString(Workspaces[w].id) =>
                 path = <<OrgEl(Workspaces[w].org), WsEl(w)>>
          /\ \A domain \in Domains, d \in 1..Len(Docs) :
               id = domain \o "|/docs/" \o Docs[d].id =>
                 path = <<OrgEl(OrgOfDoc(d)), WsEl(Docs[d].ws),
                          PathElement(id, Docs[d].name)>>
          /\ path # <<>> => path[Len(path)].id = id

\* the tables of a document were listed with a path of three elements
C7_Witness ==
  \E c \in ListCalls :
    /\ call[c].pc = "done"
    /\ call[c].arg = "org-1|/docs/d1"
    /\ Len(call[c].ret[1].path) = 3

\* C8: the listing of folder '{domain}|/docs/{docId}' returns one entry per
\* table of the document, in order, of type 'resource' and format 'csv', with
\* id '{domain}|{docId}|{tableId}' that holds no '/docs/'; count is the number
\* of entries of every listing.
C8_TableEntries ==
  \A c \in ListCalls :
    call[c].pc = "done" =>
      LET ret == call[c].ret[1]
      IN  /\ ret.count = Len(ret.results)
          /\ \A domain \in Domains, d \in 1..Len(Docs) :
               call[c].arg = domain \o "|/docs/" \o Docs[d].id =>
                 /\ Len(ret.results) = Len(TablesOf(d))
                 /\ \A i \in 1..Len(ret.results) :
                      /\ ret.results[i].id =
                           domain \o "|" \o Docs[d].id \o "|" \o Tables[TablesOf(d)[i]].id
                      /\ ret.results[i].type = "resource"
                      /\ ret.results[i].format = <<"csv">>
                      /\ ~Includes(ret.results[i].id, "/docs/")

\* the two tables of a document were listed: count 2, path of length 3
C8_Witness ==
  \E c \in ListCalls :
    /\ call[c].pc = "done"
    /\ call[c].arg = "org-1|/docs/d1"
    /\ call[c].ret[1].count = 2
    /\ Len(call[c].ret[1].path) = 3

\* the third pipe-separated component of a resource identifier
TableIdOf(resourceId) == SplitAll(resourceId, "|")[3]

\* C9 as stated: the descriptor's id is the payload's name and its title the
\* payload's title, or the tableId component of the identifier when the
\* payload has no title.
C9_TitleFallsBackToTableId ==
  \A c \in GetCalls :
    call[c].pc = "done" =>
      LET data == call[c].data[1]
          res == call[c].ret[1]
      IN  /\ res.id = data.name
          /\ data.title = <<>> => res.title = TableIdOf(call[c].arg)
          /\ data.title \notin {<<>>, <<"">>} => res.title = data.title[1]

\* C9 amended: the descriptor's id is the payload's name and its title the
\* payload's title, or the payload's name when the payload has no title or an
\* empty one.
C9_TitleFallsBackToName ==
  \A c \in GetCalls :
    call[c].pc = "done" =>
      LET data == call[c].data[1]
          res == call[c].ret[1]
      IN  /\ res.id = data.name
          /\ data.title \in {<<>>, <<"">>} => res.title = data.name
          /\ data.title \notin {<<>>, <<"">>} => res.title = data.title[1]

\* a payload without title gave a title that is not the tableId
C9_Witness ==
  \E c \in GetCalls :
    /\ call[c].pc = "done"
    /\ call[c].data[1].title = <<>>
    /\ call[c].ret[1].title = "table1"
    /\ TableIdOf(call[c].arg) = "Table1"

\* C10: the schema has one entry per field of the payload; the separator of a
\* field of type 'array' is ', ' when its delimiter is unset (absent or empty)
\* or ',', and the delimiter otherwise; the separator of any other field is
\* undefined.
C10_Separator ==
  \A c \in GetCalls :
    call[c].pc = "done" =>
      LET fields == call[c].data[1].fields
          schema == call[c].ret[1].schema
      IN  /\ Len(schema) = Len(fields)
          /\ \A i \in 1..Len(fields) :
               IF fields[i].type = <<"array">>
               THEN IF fields[i].delimiter \in {<<>>, <<"">>, <<",">>}
                    THEN schema[i].separator = <<", ">>
                    ELSE schema[i].separator = fields[i].delimiter
               ELSE schema[i].separator = <<>>

\* an array field with a configured delimiter kept it
C10_Witness ==
  \E c \in GetCalls :
    /\ call[c].pc = "done"
    /\ Len(call[c].data[1].fields) = 1
    /\ call[c].data[1].fields[1].type = <<"array">>
    /\ call[c].data[1].fields[1].delimiter = <<";">>
    /\ call[c].ret[1].schema[1].separator = <<";">>

Young(url) == {p \in DOMAIN promises : p[1] = url /\ now - p[2] < MaxAge}

RECURSIVE ChunksBefore(_, _)
ChunksBefore(t, i) ==
  IF i = 0 THEN 0
  ELSE ChunksBefore(t, i - 1) + (IF t[i] = <<"chunk">> THEN 1 ELSE 0)

\* C13: the events of a getResource call that returned are, in order: the CSV
\* request; while chunks arrive, progress reports that each carry the bytes
\* received so far (so never less than the one before); the writer's finish;
\* the one report with a total, whose value and total are both the number of
\* bytes received; the table-schema request; the return of the descriptor,
\* whose filePath is '{tmpDir}/{tableId}.csv'.
C13_EventOrder ==
  \A c \in GetCalls :
    call[c].pc = "done" =>
      LET t == call[c].trace
          n == Len(t)
          total == ChunkLen * ChunksBefore(t, n)
          Reports == {i \in 1..n : t[i][1] = "progress"}
      IN  /\ n >= 8
          /\ t[1] = <<"step">>
          /\ t[2] = <<"request", DownloadUrl(cfgUrl, call[c].arg, "csv")>>
          /\ t[3] = <<"task">>
          /\ \A i \in 4..(n - 5) :
               \/ t[i] = <<"chunk">>
               \/ /\ t[i] = <<"progress", ChunkLen * ChunksBefore(t, i)>>
                  /\ t[i - 1] = <<"chunk">>
          /\ \A i, j \in Reports : i <= j => t[i][2] <= t[j][2]
          /\ t[n - 4] = <<"finish">>
          /\ t[n - 3] = <<"progress", total, total>>
          /\ Cardinality({i \in Reports : Len(t[i]) = 3}) = 1
          /\ t[n - 2] = <<"info">>
          /\ t[n - 1] = <<"request", DownloadUrl(cfgUrl, call[c].arg, "table-schema")>>
          /\ t[n] = <<"return">>
          /\ \A i \in 1..n : t[i][1] = "request" => i \in {2, n - 1}
          /\ call[c].ret[1].filePath = TmpDir \o "/" \o TableIdOf(call[c].arg) \o ".csv"

\* a call returned after two chunks, the second reported as it arrived
C13_Witness ==
  \E c \in GetCalls :
    /\ call[c].pc = "done"
    /\ call[c].downloaded = MaxChunks * ChunkLen
    /\ \E i \in 1..Len(call[c].trace) :
         call[c].trace[i] = <<"progress", MaxChunks * ChunkLen>>
    /\ call[c].ret[1].filePath = "/tmp/dir/Table1.csv"

\* C14: catalogConfig.apiKey is never a key in the clear: it is '********',
\* empty or unset, while prepare runs and after it returned or threw; the call
\* given a key has stored it in secrets.apiKey, the call given '********' has
\* left secrets.apiKey as it was, the call given the empty string has removed
\* it, and the call given the configuration the call before left has changed
\* neither the configuration nor the secrets.
C14_SecretRedaction ==
  /\ cfgApiKey \in {<<>>, <<"">>, <<Redacted>>}
  /\ prep.pc # "idle" =>
       /\ (\E k \in ApiKeys : prep.given = <<k>>) =>
            secrets = prep.given /\ cfgApiKey = <<Redacted>>
       /\ prep.given = <<Redacted>> => secrets = prep.before
       /\ prep.given = <<"">> => secrets = <<>>
       /\ prep.given = prep.prev =>
            secrets = prep.before /\ cfgApiKey = prep.prev

\* a call given a key threw on its probe, the key stored and redacted all the
\* same, in place of the key stored before
C14_Witness ==
  /\ prep.pc = "threw"
  /\ prep.msg = ConnectionMsg
  /\ prep.given = <<"kB">>
  /\ prep.before = <<"kA">>
  /\ secrets = <<"kB">>
  /\ cfgApiKey = <<Redacted>>

====
